---- MODULE Spec2Model ----
(***************************************************************************)
(* Model of the computational core of the MODIS land-cover analysis:       *)
(*   ChangeAnalyzer.analyze_changes      (change_analyzer.py)              *)
(*   LULCAnalyzer.analyze_area_coverage  (lulc_analyzer.py)                *)
(* A DataFrame is a sequence of rows carrying the two columns the          *)
(* analyzers read, land_cover_class and land_cover_name.  Python floats    *)
(* are modelled by exact rationals [num, den] in lowest terms.             *)
(***************************************************************************)
EXTENDS Integers, Sequences, FiniteSets, TLC

VARIABLES all_year_data, years, seed, pc, exc, results, reads,
          df, year, area_pc, area_results

vars == <<all_year_data, years, seed, pc, exc, results, reads,
          df, year, area_pc, area_results>>

change_vars == <<all_year_data, years, seed, pc, exc, results, reads>>

area_vars == <<df, year, area_pc, area_results>>

(***************************************************************************)
(* Bounds of the model.                                                    *)
(***************************************************************************)
\* per-class sample counts of a table are 0 or Base .. Base + Spread
Spread == 1

\* longest years sequence handed to analyze_changes
MaxYears == 3

\* longest sample table handed to analyze_area_coverage
MaxLen == 4

\* most samples of one class in the tables of the ranking specification
MaxCount == 2

(***************************************************************************)
(* Program constants.                                                      *)
(***************************************************************************)
LAND_COVER_CLASSES ==
    [i \in 1..17 |->
        CASE i = 1  -> "Evergreen Needleleaf Forest"
          [] i = 2  -> "Evergreen Broadleaf Forest"
          [] i = 3  -> "Deciduous Needleleaf Forest"
          [] i = 4  -> "Deciduous Broadleaf Forest"
          [] i = 5  -> "Mixed Forests"
          [] i = 6  -> "Closed Shrublands"
          [] i = 7  -> "Open Shrublands"
          [] i = 8  -> "Woody Savannas"
          [] i = 9  -> "Savannas"
          [] i = 10 -> "Grasslands"
          [] i = 11 -> "Permanent Wetlands"
          [] i = 12 -> "Croplands"
          [] i = 13 -> "Urban and Built-up"
          [] i = 14 -> "Cropland/Natural Vegetation Mosaic"
          [] i = 15 -> "Snow and Ice"
          [] i = 16 -> "Barren"
          [] i = 17 -> "Water Bodies"]

forest_classes == {1, 2, 3, 4, 5}

urban_class == 13

\* the ">2% change" threshold of the major-change filter
MajorThreshold == 2

(***************************************************************************)
(* Rationals standing for Python floats.                                   *)
(***************************************************************************)
Abs(n) == IF n < 0 THEN -n ELSE n

RECURSIVE GCD(_, _)
GCD(a, b) == IF b = 0 THEN a ELSE GCD(b, a % b)

\* the value n / d, d > 0, in lowest terms
Rat(n, d) ==
    LET g == GCD(Abs(n), d)
    IN  [num |-> n \div g, den |-> d \div g]

RatOfInt(n) == [num |-> n, den |-> 1]

RatAbs(r) == [num |-> Abs(r.num), den |-> r.den]

RatGT(a, b) == a.num * b.den > b.num * a.den

(***************************************************************************)
(* Sample tables.                                                          *)
(***************************************************************************)
Row(id) == [land_cover_class |-> id, land_cover_name |-> LAND_COVER_CLASSES[id]]

RECURSIVE Rep(_, _)
Rep(x, n) == IF n = 0 THEN <<>> ELSE <<x>> \o Rep(x, n - 1)

\* class identifiers the model draws samples from
ModelClassIds == {2, 12, 13}

ModelClassNames == {LAND_COVER_CLASSES[i] : i \in ModelClassIds}

\* a change of one sample on a count of Base is exactly the threshold
Base == 100 \div MajorThreshold

CountVals == {0} \cup (Base .. Base + Spread)

\* the table with f[id] samples of class id, classes in ascending order
RECURSIVE MkTable(_, _)
MkTable(f, ids) ==
    IF ids = {} THEN <<>>
    ELSE LET id == CHOOSE x \in ids : \A y \in ids : x <= y
         IN  Rep(Row(id), f[id]) \o MkTable(f, ids \ {id})

TablesOver(ids, vals) == {MkTable(f, ids) : f \in [ids -> vals]}

Tables == TablesOver(ModelClassIds, CountVals)

YearSet == {2015, 2020}

SeqsUpTo(S, n) == UNION {[1..k -> S] : k \in 0..n}

\* iteration orders of a Python set of str: fixed within one process by the
\* hash seed, any order across processes
Seeds == {s \in [1..Cardinality(ModelClassNames) -> ModelClassNames] :
              \A i, j \in DOMAIN s : i # j => s[i] # s[j]}

(***************************************************************************)
(* ChangeAnalyzer                                                          *)
(***************************************************************************)
\* Series.value_counts() of the land_cover_name column: name -> count
NameCounts(t) ==
    [n \in {t[i].land_cover_name : i \in DOMAIN t} |->
        Cardinality({i \in DOMAIN t : t[i].land_cover_name = n})]

\* Series.get(key, default)
SeriesGet(counts, key, default) ==
    IF key \in DOMAIN counts THEN counts[key] ELSE default

\* "for lc_class in all_classes": the order in which a set of str is iterated
SetOrder(S, sd) == SelectSeq(sd, LAMBDA n : n \in S)

\* ChangeRecord without the "appeared" marker for a class absent at the start
ChangeRecord_NoSentinel(lc_class, counts_start, counts_end) ==
    LET count_start == SeriesGet(counts_start, lc_class, 0)
        count_end   == SeriesGet(counts_end, lc_class, 0)
        change      == count_end - count_start
        change_pct  == IF count_start > 0
                       THEN Rat(change * 100, count_start)
                       ELSE RatOfInt(0)
    IN  [class_name        |-> lc_class,
         pixels_start      |-> count_start,
         pixels_end        |-> count_end,
         change_pixels     |-> change,
         change_percentage |-> change_pct]

\* body of the loop over all_classes
ChangeRecord(lc_class, counts_start, counts_end) ==
    LET count_start == SeriesGet(counts_start, lc_class, 0)
        count_end   == SeriesGet(counts_end, lc_class, 0)
        change      == count_end - count_start
        change_pct  == IF count_start > 0
                       THEN Rat(change * 100, count_start)
                       ELSE IF count_end > 0 THEN RatOfInt(100) ELSE RatOfInt(0)
    IN  [class_name        |-> lc_class,
         pixels_start      |-> count_start,
         pixels_end        |-> count_end,
         change_pixels     |-> change,
         change_percentage |-> change_pct]

\* SortKey without abs()
SortKey_Signed(x) == x["change_pixels"]

\* key=lambda x: abs(x['change_pixels'])
SortKey(x) == Abs(x["change_pixels"])

\* list.sort(key=..., reverse=True): stable, equal keys keep their order
InsertSorted(sorted, x) ==
    LET k == Cardinality({i \in DOMAIN sorted : SortKey(sorted[i]) >= SortKey(x)})
    IN  SubSeq(sorted, 1, k) \o <<x>> \o SubSeq(sorted, k + 1, Len(sorted))

RECURSIVE SortChanges(_)
SortChanges(changes) ==
    IF changes = <<>> THEN <<>>
    ELSE InsertSorted(SortChanges(SubSeq(changes, 1, Len(changes) - 1)),
                      changes[Len(changes)])

\* AllClasses taken from the class enumeration instead of the two tables
AllClasses_Enumeration(counts_start, counts_end) ==
    {LAND_COVER_CLASSES[i] : i \in DOMAIN LAND_COVER_CLASSES}

\* set(counts_start.index) | set(counts_end.index)
AllClasses(counts_start, counts_end) == DOMAIN counts_start \cup DOMAIN counts_end

_calculate_area_changes(df_start, df_end, sd) ==
    LET counts_start == NameCounts(df_start)
        counts_end   == NameCounts(df_end)
        all_classes  == AllClasses(counts_start, counts_end)
        order        == SetOrder(all_classes, sd)
        changes      == [i \in DOMAIN order |->
                            ChangeRecord(order[i], counts_start, counts_end)]
    IN  SortChanges(changes)

_calculate_total_forest_area(t) ==
    Cardinality({i \in DOMAIN t : t[i].land_cover_class \in forest_classes})

\* len(df[df['land_cover_class'] == 13])
UrbanCount(t) ==
    Cardinality({i \in DOMAIN t : t[i].land_cover_class = urban_class})

\* IsMajor with >= in place of >
IsMajor_Inclusive(change) ==
    ~RatGT(RatOfInt(MajorThreshold), RatAbs(change["change_percentage"]))

\* "if abs(change['change_percentage']) > 2"
IsMajor(change) ==
    RatGT(RatAbs(change["change_percentage"]), RatOfInt(MajorThreshold))

MajorChanges(area_changes) == SelectSeq(area_changes, IsMajor)

\* f"{x:+.1f}": explicit sign of the value, magnitude rounded to tenths
FormatSigned1(r) ==
    LET n == Abs(r.num) * 10
        q == n \div r.den
        m == n % r.den
        tenths == IF 2 * m > r.den \/ (2 * m = r.den /\ q % 2 = 1)
                  THEN q + 1 ELSE q
    IN  [sign |-> IF r.num < 0 THEN "-" ELSE "+", tenths |-> tenths]

NoMajorSummary == [text |-> "No major land cover changes detected"]

\* _generate_summary that also gives the literal when neither composite
\* changed
_generate_summary_Composites(major_changes, forest_pct, urban_pct) ==
    IF Len(major_changes) = 0 \/ (forest_pct.num = 0 /\ urban_pct.num = 0)
    THEN NoMajorSummary
    ELSE [text   |-> "Forest change: {forest}%, Urban change: {urban}%",
          forest |-> FormatSigned1(forest_pct),
          urban  |-> FormatSigned1(urban_pct)]

_generate_summary(major_changes, forest_pct, urban_pct) ==
    IF Len(major_changes) = 0
    THEN NoMajorSummary
    ELSE [text   |-> "Forest change: {forest}%, Urban change: {urban}%",
          forest |-> FormatSigned1(forest_pct),
          urban  |-> FormatSigned1(urban_pct)]

\* value of the results variable when the call raised instead of returning
NoResults == [raised |-> TRUE]

Returned(r, rd) == [pc |-> "returned", exc |-> "", results |-> r, reads |-> rd]

Raised(e, rd) == [pc |-> "raised", exc |-> e, results |-> NoResults, reads |-> rd]

CompositeChange(start, end) ==
    [start      |-> start,
     end        |-> end,
     change     |-> end - start,
     change_pct |-> Rat((end - start) * 100, start)]

\* TotalTransitions counting the classes that changed by more than 2%
TotalTransitions_Major(area_changes, major_changes) == Len(major_changes)

\* results['total_transitions'] = len(area_changes)
TotalTransitions(area_changes, major_changes) == Len(area_changes)

\* YearEnd taking the year after the first instead of the last
YearEnd_Second(ys) == ys[2]

\* the last year compared: years[-1]
YearEnd(ys) == ys[Len(ys)]

\* TooFewYears with the bound off by one
TooFewYears_Empty(ys) == Len(ys) < 1

\* "if len(years) < 2: return results"
TooFewYears(ys) == Len(ys) < 2

analyze_changes(data, ys, sd) ==
    LET r0 == [years_analyzed    |-> ys,
               total_transitions |-> 0,
               major_changes     |-> <<>>]
    IN
    IF TooFewYears(ys) THEN Returned(r0, {})
    ELSE
    LET year_start == ys[1]
        year_end   == YearEnd(ys)
    IN
    IF year_start \notin DOMAIN data THEN Raised("KeyError", {year_start})
    ELSE IF year_end \notin DOMAIN data
    THEN Raised("KeyError", {year_start, year_end})
    ELSE
    LET rd           == {year_start, year_end}
        df_start     == data[year_start]
        df_end       == data[year_end]
        area_changes == _calculate_area_changes(df_start, df_end, sd)
        major        == MajorChanges(area_changes)
        total_forest_start == _calculate_total_forest_area(df_start)
        total_forest_end   == _calculate_total_forest_area(df_end)
        total_urban_start  == UrbanCount(df_start)
        total_urban_end    == UrbanCount(df_end)
    IN
    IF total_forest_start = 0 THEN Raised("ZeroDivisionError", rd)
    ELSE IF total_urban_start = 0 THEN Raised("ZeroDivisionError", rd)
    ELSE
    LET forest_change == CompositeChange(total_forest_start, total_forest_end)
        urban_change  == CompositeChange(total_urban_start, total_urban_end)
    IN  Returned([years_analyzed    |-> ys,
                  total_transitions |-> TotalTransitions(area_changes, major),
                  major_changes     |-> major,
                  area_changes      |-> area_changes,
                  forest_change     |-> forest_change,
                  urban_change      |-> urban_change,
                  summary           |-> _generate_summary(major,
                                            forest_change.change_pct,
                                            urban_change.change_pct)],
                 rd)

(***************************************************************************)
(* Actions on the change analysis.  The first specification compares the   *)
(* tables of two years, each table with 0 or about Base samples per class. *)
(***************************************************************************)
Apply(data, ys, sd) ==
    \E o \in {analyze_changes(data, ys, sd)} :
        /\ pc' = o.pc
        /\ exc' = o.exc
        /\ results' = o.results
        /\ reads' = o.reads

\* change_analyzer.analyze_changes(all_year_data, years)
Analyze ==
    /\ pc = "ready"
    /\ Apply(all_year_data, years, seed)
    /\ UNCHANGED <<all_year_data, years, seed, area_vars>>

\* the program is run again, in a new process, on the same tables and years
NewProcess ==
    /\ pc # "ready"
    /\ seed' \in Seeds
    /\ Apply(all_year_data, years, seed')
    /\ UNCHANGED <<all_year_data, years, area_vars>>

AreaIdle ==
    /\ df = <<>>
    /\ year = 0
    /\ area_pc = "idle"
    /\ area_results = NoResults

Init ==
    /\ all_year_data \in [YearSet -> Tables]
    /\ years \in [1..2 -> YearSet]
    /\ seed \in Seeds
    /\ pc = "ready"
    /\ exc = ""
    /\ results = NoResults
    /\ reads = {}
    /\ AreaIdle

Next == Analyze \/ NewProcess

Spec == Init /\ [][Next]_vars

(***************************************************************************)
(* Second specification: years sequences of every length up to MaxYears,   *)
(* mappings that may lack a year, and an environment that edits what lies  *)
(* between years[0] and years[-1] before the analysis is invoked again in  *)
(* the same process.                                                       *)
(***************************************************************************)
FrameYearSet == {2010, 2015, 2020}

FrameTables == TablesOver({2, 13}, {0, Base})

FrameMappings == UNION {[D -> FrameTables] : D \in SUBSET FrameYearSet}

InitFrame ==
    /\ all_year_data \in FrameMappings
    /\ years \in SeqsUpTo(FrameYearSet, MaxYears)
    /\ seed \in Seeds
    /\ pc = "ready"
    /\ exc = ""
    /\ results = NoResults
    /\ reads = {}
    /\ AreaIdle

\* the table of a year that is neither years[0] nor years[-1] is replaced,
\* added or removed, and analyze_changes is invoked again
ChangeIntermediateTable ==
    /\ pc # "ready"
    /\ Len(years) >= 2
    /\ \E y \in FrameYearSet \ {years[1], years[Len(years)]} :
         \E d \in {[k \in DOMAIN all_year_data \ {y} |-> all_year_data[k]]}
                  \cup {[k \in DOMAIN all_year_data \cup {y} |->
                            IF k = y THEN t ELSE all_year_data[k]] :
                        t \in FrameTables} :
            /\ d # all_year_data
            /\ all_year_data' = d
            /\ Apply(d, years, seed)
    /\ UNCHANGED <<years, seed, area_vars>>

\* the entries of years between the first and the last are changed, added or
\* removed, and analyze_changes is invoked again
ChangeIntermediateYears ==
    /\ pc # "ready"
    /\ Len(years) >= 2
    /\ \E ys \in SeqsUpTo(FrameYearSet, MaxYears) :
            /\ Len(ys) >= 2
            /\ ys[1] = years[1]
            /\ ys[Len(ys)] = years[Len(years)]
            /\ ys # years
            /\ years' = ys
            /\ Apply(all_year_data, ys, seed)
    /\ UNCHANGED <<all_year_data, seed, area_vars>>

NextFrame ==
    \/ Analyze
    \/ NewProcess
    \/ ChangeIntermediateTable
    \/ ChangeIntermediateYears

SpecFrame == InitFrame /\ [][NextFrame]_vars

(***************************************************************************)
(* LULCAnalyzer                                                            *)
(***************************************************************************)
\* PIXEL_AREA_KM2 = 0.25, as the rational 1 / PixelsPerKm2
PixelsPerKm2 == 4

ClassIdsOf(t) == {t[i].land_cover_class : i \in DOMAIN t}

\* ClassCounts that skips the first row of the table
ClassCounts_SkipFirst(t) ==
    [c \in ClassIdsOf(t) |->
        Cardinality({i \in DOMAIN t \ {1} : t[i].land_cover_class = c})]

\* df['land_cover_class'].value_counts(): class -> count
ClassCounts(t) ==
    [c \in ClassIdsOf(t) |->
        Cardinality({i \in DOMAIN t : t[i].land_cover_class = c})]

\* the sequences listing the classes of C once each, count descending
RECURSIVE DescendingOrders(_, _)
DescendingOrders(C, cnt) ==
    IF C = {} THEN {<<>>}
    ELSE UNION {{<<c>> \o o : o \in DescendingOrders(C \ {c}, cnt)} :
                c \in {x \in C : \A y \in C : cnt[x] >= cnt[y]}}

\* the orders value_counts() may list the classes in: count descending, the
\* order among equal counts is left to the library's sort
ValueCountsOrders(t) == DescendingOrders(ClassIdsOf(t), ClassCounts(t))

\* df.groupby('land_cover_class')['land_cover_name'].first()
ClassNames(t) ==
    [c \in ClassIdsOf(t) |->
        LET first == CHOOSE i \in DOMAIN t :
                        /\ t[i].land_cover_class = c
                        /\ \A j \in DOMAIN t : t[j].land_cover_class = c => i <= j
        IN  t[first].land_cover_name]

\* Percentage with floor division: (count // len(df)) * 100
Percentage_Floor(count, total) == RatOfInt((count \div total) * 100)

\* (count / len(df)) * 100
Percentage(count, total) == Rat(count * 100, total)

ClassStats(lc_class, count, total) ==
    [class_id    |-> lc_class,
     pixel_count |-> count,
     area_km2    |-> Rat(count, PixelsPerKm2),
     percentage  |-> Percentage(count, total)]

\* InsertByPercentage that puts an item before the items equal to it, as a
\* reversed ascending sort does
InsertByPercentage_Reversed(sorted, x) ==
    LET k == Cardinality({i \in DOMAIN sorted :
                             RatGT(sorted[i].percentage, x.percentage)})
    IN  SubSeq(sorted, 1, k) \o <<x>> \o SubSeq(sorted, k + 1, Len(sorted))

\* sorted(items, key=lambda x: x[1], reverse=True): stable
InsertByPercentage(sorted, x) ==
    LET k == Cardinality({i \in DOMAIN sorted :
                             ~RatGT(x.percentage, sorted[i].percentage)})
    IN  SubSeq(sorted, 1, k) \o <<x>> \o SubSeq(sorted, k + 1, Len(sorted))

RECURSIVE SortByPercentage(_)
SortByPercentage(items) ==
    IF items = <<>> THEN <<>>
    ELSE InsertByPercentage(SortByPercentage(SubSeq(items, 1, Len(items) - 1)),
                            items[Len(items)])

\* sorted_classes[:5]
TopN == 5

Take(q, n) == SubSeq(q, 1, IF Len(q) < n THEN Len(q) ELSE n)

\* order: the order in which class_counts.items() yields the classes
analyze_area_coverage(t, yr, order) ==
    LET class_counts == ClassCounts(t)
        class_names  == ClassNames(t)
        names        == {class_names[c] : c \in DOMAIN class_counts}
        \* a later class of the same name overwrites an earlier one
        LastOf(n)    == order[CHOOSE i \in DOMAIN order :
                                /\ class_names[order[i]] = n
                                /\ \A j \in DOMAIN order :
                                      class_names[order[j]] = n => j <= i]
        class_areas  == [n \in names |->
                            ClassStats(LastOf(n), class_counts[LastOf(n)], Len(t))]
        \* items of class_percentages in insertion order
        firsts       == SelectSeq([i \in DOMAIN order |-> i],
                            LAMBDA i : \A j \in 1..(i - 1) :
                                class_names[order[j]] # class_names[order[i]])
        class_percentages ==
            [k \in DOMAIN firsts |->
                [name       |-> class_names[order[firsts[k]]],
                 percentage |-> class_areas[class_names[order[firsts[k]]]].percentage]]
    IN  [year              |-> yr,
         total_pixels      |-> Len(t),
         total_area_km2    |-> Rat(Len(t), PixelsPerKm2),
         class_statistics  |-> class_areas,
         class_percentages |-> class_percentages,
         total_classes     |-> Cardinality(DOMAIN class_counts),
         top_5_classes     |-> Take(SortByPercentage(class_percentages), TopN)]

\* Divisors with the division by len(df) hoisted out of the loop
Divisors_Hoisted(t) == {Len(t)}

\* the divisors of the divisions the loop over class_counts executes:
\* count / len(df), once per class
Divisors(t) == {Len(t) : c \in DOMAIN ClassCounts(t)}

\* analyzer.analyze_area_coverage(data, year)
AnalyzeArea ==
    /\ area_pc = "ready"
    /\ IF 0 \in Divisors(df)
       THEN /\ area_pc' = "raised"
            /\ area_results' = NoResults
       ELSE /\ area_pc' = "returned"
            /\ \E order \in ValueCountsOrders(df) :
                  area_results' = analyze_area_coverage(df, year, order)
    /\ UNCHANGED <<df, year, change_vars>>

\* the analyzer is handed another table of the same size
NextTable ==
    /\ area_pc = "returned"
    /\ \E t \in [DOMAIN df -> {Row(id) : id \in ModelClassIds}] :
          /\ t # df
          /\ df' = t
    /\ area_pc' = "ready"
    /\ area_results' = NoResults
    /\ UNCHANGED <<year, change_vars>>

ChangeIdle ==
    /\ all_year_data = <<>>
    /\ years = <<>>
    /\ seed = <<>>
    /\ pc = "idle"
    /\ exc = ""
    /\ results = NoResults
    /\ reads = {}

AreaTables == SeqsUpTo({Row(id) : id \in ModelClassIds}, MaxLen)

InitArea ==
    /\ df \in AreaTables
    /\ year \in YearSet
    /\ area_pc = "ready"
    /\ area_results = NoResults
    /\ ChangeIdle

NextArea == AnalyzeArea \/ NextTable

SpecArea == InitArea /\ [][NextArea]_vars

(***************************************************************************)
(* Third specification of the area analysis: tables with up to six classes *)
(* and 0 .. MaxCount samples of each, so that the ranking has classes to   *)
(* leave out and equal percentages to order.                               *)
(***************************************************************************)
TopClassIds == {1, 2, 10, 12, 13, 17}

TopTables == TablesOver(TopClassIds, 0..MaxCount)

InitTop ==
    /\ df \in TopTables
    /\ year \in {2020}
    /\ area_pc = "ready"
    /\ area_results = NoResults
    /\ ChangeIdle

NextTop == AnalyzeArea

SpecTop == InitTop /\ [][NextTop]_vars

(***************************************************************************)
(* Properties.  They are stated on the inputs and the results alone, with  *)
(* their own counting operators.                                           *)
(***************************************************************************)
CountOfName(t, n) == Cardinality({i \in DOMAIN t : t[i].land_cover_name = n})

CountOfIds(t, ids) == Cardinality({i \in DOMAIN t : t[i].land_cover_class \in ids})

\* analyze_changes was called with at least 2 years and returned
Compared == pc = "returned" /\ Len(years) >= 2

FirstTable == all_year_data[years[1]]

LastTable == all_year_data[years[Len(years)]]

\* C1: every per-class record carries the first-year count, the last-year
\* count, their difference, and the percentage 100 * (end - start) / start,
\* or 100 for a class that appeared, or 0 when both counts are 0.
C1_PerClassRecord ==
    Compared =>
        \A i \in DOMAIN results.area_changes :
            LET r == results.area_changes[i]
                s == CountOfName(FirstTable, r.class_name)
                e == CountOfName(LastTable, r.class_name)
                p == r.change_percentage
            IN  /\ r.pixels_start = s
                /\ r.pixels_end = e
                /\ r.change_pixels = e - s
                /\ p.den > 0
                /\ s > 0 => p.num * s = 100 * (e - s) * p.den
                /\ (s = 0 /\ e > 0) => (p.num = 100 /\ p.den = 1)
                /\ (s = 0 /\ e = 0) => p.num = 0

C1_Witness ==
    /\ Compared
    /\ \E i \in DOMAIN results.area_changes :
          /\ results.area_changes[i].pixels_start = 0
          /\ results.area_changes[i].pixels_end > 0
    /\ \E i \in DOMAIN results.area_changes :
          /\ results.area_changes[i].pixels_start > 0
          /\ results.area_changes[i].change_pixels < 0
          /\ results.area_changes[i].pixels_end > 0

\* C2: with no forest sample or no urban sample in the first-year table,
\* analyze_changes raises no arithmetic fault.
C2_NoArithmeticFault ==
    (/\ pc \in {"returned", "raised"}
     /\ Len(years) >= 2
     /\ years[1] \in DOMAIN all_year_data
     /\ years[Len(years)] \in DOMAIN all_year_data
     /\ \/ CountOfIds(FirstTable, 1..5) = 0
        \/ CountOfIds(FirstTable, {13}) = 0)
    => exc # "ZeroDivisionError"

\* C3: with fewer than 2 years analyze_changes returns, without error and
\* without reading a table, zero transitions and no major changes.
C3_Degenerate ==
    (pc # "ready" /\ Len(years) < 2) =>
        /\ pc = "returned"
        /\ results.total_transitions = 0
        /\ results.major_changes = <<>>
        /\ reads = {}

C3_Witness ==
    /\ pc = "returned"
    /\ Len(years) = 1
    /\ years[1] \in DOMAIN all_year_data
    /\ all_year_data[years[1]] # <<>>

PerClassRecords == IF Len(years) >= 2 THEN results.area_changes ELSE <<>>

\* C4: a per-class record is in major_changes exactly when the absolute value
\* of its change_percentage is strictly greater than 2.
C4_MajorFilter ==
    pc = "returned" =>
        /\ \A i \in DOMAIN PerClassRecords :
              LET p == PerClassRecords[i].change_percentage
              IN  (\E j \in DOMAIN results.major_changes :
                      results.major_changes[j] = PerClassRecords[i])
                  <=> (Abs(p.num) > 2 * p.den)
        /\ \A j \in DOMAIN results.major_changes :
              \E i \in DOMAIN PerClassRecords :
                  PerClassRecords[i] = results.major_changes[j]

C4_Witness ==
    /\ Compared
    /\ \E i \in DOMAIN results.area_changes :
          /\ results.area_changes[i].change_percentage = [num |-> 2, den |-> 1]
          /\ \A j \in DOMAIN results.major_changes :
                results.major_changes[j] # results.area_changes[i]
    /\ \E i \in DOMAIN results.area_changes :
          /\ results.area_changes[i].change_percentage.num < 0
          /\ \E j \in DOMAIN results.major_changes :
                results.major_changes[j] = results.area_changes[i]

RECURSIVE SumPixelCount(_, _)
SumPixelCount(stats, names) ==
    IF names = {} THEN 0
    ELSE LET n == CHOOSE x \in names : TRUE
         IN  stats[n].pixel_count + SumPixelCount(stats, names \ {n})

\* C5: the pixel counts of class_statistics add up to total_pixels, the
\* number of samples of the table.
C5_CountsSum ==
    area_pc = "returned" =>
        /\ area_results.total_pixels = Len(df)
        /\ SumPixelCount(area_results.class_statistics,
                         DOMAIN area_results.class_statistics)
           = area_results.total_pixels

C5_Witness ==
    /\ area_pc = "returned"
    /\ Len(df) >= 3
    /\ Cardinality(DOMAIN area_results.class_statistics) >= 2

\* C6: the class name of every per-class record appears in the first-year
\* table or in the last-year table.
C6_NamesFromTables ==
    Compared =>
        \A i \in DOMAIN results.area_changes :
            \/ CountOfName(FirstTable, results.area_changes[i].class_name) > 0
            \/ CountOfName(LastTable, results.area_changes[i].class_name) > 0

C6_Witness ==
    /\ Compared
    /\ \E i \in DOMAIN results.area_changes :
          CountOfName(LastTable, results.area_changes[i].class_name) = 0
    /\ \E n \in ModelClassNames :
          CountOfName(FirstTable, n) = 0 /\ CountOfName(LastTable, n) = 0

\* the sum of the percentages of class_statistics, as numerator / denominator
RECURSIVE SumPercentage(_, _)
SumPercentage(stats, names) ==
    IF names = {} THEN [num |-> 0, den |-> 1]
    ELSE LET n == CHOOSE x \in names : TRUE
             r == SumPercentage(stats, names \ {n})
             p == stats[n].percentage
         IN  [num |-> p.num * r.den + r.num * p.den, den |-> p.den * r.den]

PercentagesSumTo100 ==
    LET t == SumPercentage(area_results.class_statistics,
                           DOMAIN area_results.class_statistics)
    IN  t.num = 100 * t.den

\* C7 as stated: for all tables the percentages of class_statistics add up
\* to 100.
C7_PercentagesSum == area_pc = "returned" => PercentagesSumTo100

\* C7 amended: for every table with at least one sample the percentages of
\* class_statistics add up to 100.
C7_PercentagesSumNonEmpty ==
    (area_pc = "returned" /\ Len(df) > 0) => PercentagesSumTo100

C7_Witness ==
    /\ area_pc = "returned"
    /\ Len(df) > 0
    /\ \E n \in DOMAIN area_results.class_statistics :
          area_results.class_statistics[n].percentage.den > 1
    /\ Cardinality(DOMAIN area_results.class_statistics) >= 2

\* C8: two invocations on the same tables and years, also in different runs
\* of the program, return the per-class records in the same order.
C8_DeterministicOrder ==
    [][(/\ Compared
        /\ pc' = "returned"
        /\ all_year_data' = all_year_data
        /\ years' = years)
       => results'.area_changes = results.area_changes]_vars

\* C9: the per-class records are ordered by descending absolute
\* change_pixels.
C9_SortedByAbsChange ==
    Compared =>
        \A i \in 1..(Len(results.area_changes) - 1) :
            Abs(results.area_changes[i].change_pixels)
                >= Abs(results.area_changes[i + 1].change_pixels)

C9_Witness ==
    /\ Compared
    /\ Len(results.area_changes) = 3
    /\ results.area_changes[1].change_pixels < 0
    /\ results.area_changes[2].change_pixels > 0
    /\ Abs(results.area_changes[1].change_pixels) > results.area_changes[2].change_pixels
    /\ results.area_changes[2].change_pixels > Abs(results.area_changes[3].change_pixels)

\* the part of a result C10 speaks of
Compares(r) ==
    <<r.area_changes, r.major_changes, r.forest_change, r.urban_change, r.summary>>

SameEnds(ys, zs) ==
    /\ Len(ys) >= 2
    /\ Len(zs) >= 2
    /\ ys[1] = zs[1]
    /\ ys[Len(ys)] = zs[Len(zs)]

SameTableAt(y, d, e) ==
    /\ y \in DOMAIN d <=> y \in DOMAIN e
    /\ y \in DOMAIN d => d[y] = e[y]

\* C10: with 2 or more years the outcome depends only on the tables of
\* years[0] and years[-1]: invoking again after a change to the tables or
\* the entries in between gives the same records, major changes, composites
\* and summary (or the same fault), and no other table is read.
C10_OnlyFirstAndLast ==
    [][(/\ pc # "ready"
        /\ pc' # "ready"
        /\ seed' = seed
        /\ SameEnds(years, years')
        /\ SameTableAt(years[1], all_year_data, all_year_data')
        /\ SameTableAt(years[Len(years)], all_year_data, all_year_data'))
       => /\ pc' = pc
          /\ exc' = exc
          /\ pc = "returned" => Compares(results') = Compares(results)
          /\ reads' \subseteq {years[1], years[Len(years)]}]_vars

C10_Witness ==
    /\ Compared
    /\ Len(years) = 3
    /\ years[2] \notin {years[1], years[3]}
    /\ years[2] \in DOMAIN all_year_data
    /\ all_year_data[years[2]] \notin {FirstTable, LastTable}
    /\ FirstTable # LastTable
    /\ reads = {years[1], years[3]}

\* position of the class name n in the items of class_percentages
ItemIndex(items, n) == CHOOSE i \in DOMAIN items : items[i].name = n

\* percentage a is at least percentage b
PctGE(a, b) == a.num * b.den >= b.num * a.den

\* C11: top_5_classes has min(5, number of distinct classes) entries, is in
\* descending order of percentage, leaves out no class with a larger
\* percentage than one it contains, and keeps classes of equal percentage in
\* the order in which the sort was handed them (the order of
\* class_percentages).
C11_TopFive ==
    area_pc = "returned" =>
        LET top   == area_results.top_5_classes
            items == area_results.class_percentages
            n     == Cardinality({df[i].land_cover_class : i \in DOMAIN df})
            InTop(m) == \E i \in DOMAIN top : top[i].name = m
        IN  /\ Len(top) = IF n < 5 THEN n ELSE 5
            /\ \A i \in DOMAIN top :
                  \E k \in DOMAIN items :
                      /\ items[k].name = top[i].name
                      /\ items[k].percentage = top[i].percentage
            /\ \A i, j \in DOMAIN top : i # j => top[i].name # top[j].name
            /\ \A i, j \in DOMAIN top :
                  i < j => PctGE(top[i].percentage, top[j].percentage)
            /\ \A k \in DOMAIN items :
                  ~InTop(items[k].name) =>
                      \A i \in DOMAIN top :
                          PctGE(top[i].percentage, items[k].percentage)
            /\ \A i, j \in DOMAIN top :
                  (i < j /\ top[i].percentage = top[j].percentage) =>
                      ItemIndex(items, top[i].name) < ItemIndex(items, top[j].name)

C11_Witness ==
    /\ area_pc = "returned"
    /\ Len(area_results.class_percentages) = 6
    /\ Len(area_results.top_5_classes) = 5
    /\ area_results.top_5_classes[1].percentage
          = area_results.top_5_classes[2].percentage
    /\ area_results.top_5_classes[2].percentage
          # area_results.top_5_classes[3].percentage
    /\ area_results.top_5_classes[5].percentage
          = area_results.class_percentages[6].percentage
    /\ area_results.class_percentages[1].name # LAND_COVER_CLASSES[1]

\* the percentage 100 * (e - s) / s is shown as f: sign of the value, and
\* the number of tenths nearest to its magnitude
ShownAs(f, s, e) ==
    /\ f.sign = IF e < s THEN "-" ELSE "+"
    /\ f.tenths >= 0
    /\ Abs(2000 * Abs(e - s) - 2 * f.tenths * s) <= s

\* C12: the summary is the literal "No major land cover changes detected"
\* exactly when major_changes is empty, whatever the composites are;
\* otherwise it embeds the forest and urban percentage changes, each with an
\* explicit sign and one decimal place.
C12_Summary ==
    Compared =>
        /\ (results.summary = [text |-> "No major land cover changes detected"])
              <=> (results.major_changes = <<>>)
        /\ results.major_changes # <<>> =>
              /\ DOMAIN results.summary = {"text", "forest", "urban"}
              /\ results.summary.text
                    = "Forest change: {forest}%, Urban change: {urban}%"
              /\ ShownAs(results.summary.forest,
                         CountOfIds(FirstTable, 1..5), CountOfIds(LastTable, 1..5))
              /\ ShownAs(results.summary.urban,
                         CountOfIds(FirstTable, {13}), CountOfIds(LastTable, {13}))

C12_Witness ==
    /\ Compared
    /\ results.major_changes # <<>>
    /\ results.forest_change.change = 0
    /\ results.urban_change.change < 0
    /\ results.urban_change.end > 0
    /\ results.summary.forest = [sign |-> "+", tenths |-> 0]
    /\ results.summary.urban = [sign |-> "-", tenths |-> 20]

NamesOf(t) == {t[i].land_cover_name : i \in DOMAIN t}

\* C13: the per-class records hold exactly one record for each class name of
\* the first-year or the last-year table, unchanged classes included, and
\* total_transitions is the number of those names.
C13_OneRecordPerClass ==
    Compared =>
        LET U == NamesOf(FirstTable) \cup NamesOf(LastTable)
        IN  /\ {results.area_changes[i].class_name :
                    i \in DOMAIN results.area_changes} = U
            /\ Len(results.area_changes) = Cardinality(U)
            /\ results.total_transitions = Cardinality(U)

C13_Witness ==
    /\ Compared
    /\ results.total_transitions = 3
    /\ \E i \in DOMAIN results.area_changes :
          results.area_changes[i].change_pixels = 0
    /\ \E i \in DOMAIN results.area_changes :
          results.area_changes[i].pixels_start = 0
    /\ Len(results.major_changes) = 1

\* C14: on the empty table analyze_area_coverage raises no fault and returns
\* zero totals, no class statistics, no class percentages, zero classes and
\* an empty top_5_classes.
C14_EmptyTable ==
    (area_pc # "ready" /\ df = <<>>) =>
        /\ area_pc = "returned"
        /\ area_results.total_pixels = 0
        /\ area_results.total_area_km2.num = 0
        /\ DOMAIN area_results.class_statistics = {}
        /\ Len(area_results.class_percentages) = 0
        /\ area_results.total_classes = 0
        /\ area_results.top_5_classes = <<>>

C14_Witness ==
    /\ area_pc = "returned"
    /\ df = <<>>
    /\ area_results.year = 2020

====
